---- MODULE Spec2Model ----
(***************************************************************************)
(* Model of cmdi (src/src/lib.rs): a tree of Command nodes, each wrapping  *)
(* a clap::Command, a handler and a HashMap of sub-commands; the dispatch  *)
(* functions exec / exec_with / exec_from / dispatch_subcmd; the           *)
(* completions sub-command; and the repl loop.                             *)
(*                                                                         *)
(* Two specifications share the variables:                                 *)
(*   Spec      the builder calls followed by one one-shot execution;       *)
(*   SpecRepl  repl() run on a tree produced by the builder operators.     *)
(***************************************************************************)
EXTENDS Integers, Sequences, FiniteSets, TLC

VARIABLES
    stack,      \* Command values under construction; stack[1] is the root
    regs,       \* per stack entry: the children registered on it, in order
    builderCalls, \* number of builder calls made so far
    pc,         \* position of the running program
    argv,       \* process arguments read by get_matches (None before)
    m0,         \* repl's `m`: the startup matches (None before parsing)
    ctx,        \* the caller's context: the ids of the handlers that ran
    calls,      \* handler invocations of the latest dispatch, in order
    out,        \* what was printed, in order
    history,    \* the line editor's history
    line,       \* the line read last (None when the read gave no line)
    reads,      \* number of editor.readline calls
    last,       \* what the latest step did (read outcome or processing)
    ret,        \* value returned to the caller of a one-shot call
    rootExecs   \* number of exec_with calls made on the root

vars == <<stack, regs, builderCalls, pc, argv, m0, ctx, calls, out, history, line,
          reads, last, ret, rootExecs>>

----------------------------------------------------------------------------
(* Bounds *)

\* builder calls made before the tree is executed
MaxBuilderCalls == 6
\* commands under construction at the same time (= depth of the tree)
MaxDepth == 3
\* editor.readline calls in one repl run
MaxReads == 2

----------------------------------------------------------------------------
(* Option values and maps *)

None == <<>>

Some(x) == <<x>>

EmptyMap == [k \in {} |-> k]

\* a mutation of Insert: an existing entry for key k is kept
InsertIfAbsent(map, k, v) ==
    [x \in DOMAIN map \cup {k} |-> IF x \in DOMAIN map THEN map[x] ELSE v]

\* HashMap::insert: the entry for key k is replaced, the others are kept
Insert(map, k, v) == [x \in DOMAIN map \cup {k} |-> IF x = k THEN v ELSE map[x]]

----------------------------------------------------------------------------
(* Names, handlers and shells used as inputs *)

RootName == "app"

Names == {"app", "a", "b"}

Shells == {"bash", "zsh", "powershell", "fish", "elvish"}

\* tokens clap reads as options; no command of the model declares one
FlagTokens == {"--bogus"}

\* Box::new(Self::dispatch_subcmd)
DefaultHandler == [kind |-> "dispatch_subcmd"]

\* a caller-supplied closure: appends its id to the context, then returns
\* Ok(()) or Err(id)
Custom(id, ok) == [kind |-> "custom", id |-> id, ok |-> ok]

CustomHandlers == {Custom("h1", TRUE), Custom("h2", FALSE)}

----------------------------------------------------------------------------
(* clap::Command, as far as cmdi uses it *)

\* clap::Command::new(name)
ClapNew(name) == [name |-> name, args |-> <<>>, subs |-> <<>>, subReq |-> FALSE]

\* clap::Command::name(name)
ClapName(c, name) == [c EXCEPT !.name = name]

\* clap::Command::arg(a): positional arguments, in declaration order
ClapArg(c, a) == [c EXCEPT !.args = Append(@, a)]

\* clap::Command::subcommand(sc): pushed after the existing sub-commands
ClapSubcommand(c, sc) == [c EXCEPT !.subs = Append(@, sc)]

\* clap::Command::subcommand_required(yes).arg_required_else_help(yes)
ClapSubcommandRequired(c, yes) == [c EXCEPT !.subReq = yes]

\* names of the sub-commands of a clap::Command
ClapSubNames(c) == {c.subs[i].name : i \in 1..Len(c.subs)}

\* first sub-command of c named t (clap's find_subcommand)
ClapFindSub(c, t) == c.subs[CHOOSE i \in 1..Len(c.subs) :
                                /\ c.subs[i].name = t
                                /\ \A j \in 1..(i-1) : c.subs[j].name # t]

NoMatches == [args |-> EmptyMap, sub |-> None]

ParseErr(kind) == [ok |-> FALSE, err |-> kind]

RequiredPresent(c, args) ==
    \A i \in 1..Len(c.args) : c.args[i].required => c.args[i].id \in DOMAIN args

\* the matched values with value v recorded for the argument id
WithValue(args, id, v) == [x \in DOMAIN args \cup {id} |-> IF x = id THEN v ELSE args[x]]

RECURSIVE ParseArgs(_, _, _, _)
\* clap's parser on command c: toks are the remaining tokens, pos the next
\* positional, args the values matched so far.  A token naming a
\* sub-command hands the rest to that sub-command; an option-like token is
\* unknown; any other token fills the next positional.
ParseArgs(c, toks, pos, args) ==
    IF toks = <<>>
    THEN IF ~RequiredPresent(c, args) THEN ParseErr("MissingRequiredArgument")
         ELSE IF c.subReq THEN ParseErr("MissingSubcommand")
         ELSE [ok |-> TRUE, m |-> [args |-> args, sub |-> None]]
    ELSE LET t == Head(toks) IN
         IF t \in ClapSubNames(c)
         THEN LET sc == ClapFindSub(c, t)
                  r  == ParseArgs(sc, Tail(toks), 1, EmptyMap)
              IN  IF ~r.ok THEN r
                  ELSE IF ~RequiredPresent(c, args)
                       THEN ParseErr("MissingRequiredArgument")
                  ELSE [ok |-> TRUE,
                        m  |-> [args |-> args,
                                sub  |-> Some([name |-> sc.name, m |-> r.m])]]
         ELSE IF t \in FlagTokens THEN ParseErr("UnknownArgument")
         ELSE IF pos > Len(c.args) THEN ParseErr("InvalidSubcommand")
         ELSE LET a == c.args[pos] IN
              IF a.values # {} /\ t \notin a.values
              THEN ParseErr("InvalidValue")
              ELSE ParseArgs(c, Tail(toks), pos + 1, WithValue(args, a.id, t))

\* clap::Command::try_get_matches_from(iter): the first item is the binary
\* name and is not parsed
TryGetMatchesFrom(c, iter) ==
    ParseArgs(c, IF iter = <<>> THEN <<>> ELSE Tail(iter), 1, EmptyMap)

\* ArgMatches::subcommand(): Some((name, sub-matches)) or None
SubcommandOf(m) == m.sub

----------------------------------------------------------------------------
(* Command: the builder *)

\* Command::new: the default handler is dispatch_subcmd, no sub-commands
New(name) == [cmd |-> ClapNew(name), handler |-> DefaultHandler, subcmds |-> EmptyMap]

\* Command::get_name
GetName(self) == self.cmd.name

\* Command::name: resets the name of the wrapped clap::Command only
Name(self, name) == [self EXCEPT !.cmd = ClapName(@, name)]

\* Command::subcommand_required_else_help
SubcommandRequiredElseHelp(self, yes) == [self EXCEPT !.cmd = ClapSubcommandRequired(@, yes)]

\* Command::arg
Arg(self, a) == [self EXCEPT !.cmd = ClapArg(@, a)]

\* Command::handler
Handler(self, handler) == [self EXCEPT !.handler = handler]

\* Command::subcommand: the child's clap::Command is cloned into the parent's
\* and the child is inserted in the HashMap under its own name
Subcommand(self, subcmd) ==
    LET subcmd_name == GetName(subcmd)
    IN  [self EXCEPT !.cmd = ClapSubcommand(@, subcmd.cmd),
                     !.subcmds = Insert(@, subcmd_name, subcmd)]

RECURSIVE Subcommands(_, _)
\* Command::subcommands: fold of subcommand over the given children
Subcommands(self, subcmds) ==
    IF subcmds = <<>> THEN self
    ELSE Subcommands(Subcommand(self, Head(subcmds)), Tail(subcmds))

\* Arg::new("shell").required(true).value_parser([...])
ShellArg == [id |-> "shell", required |-> TRUE, values |-> Shells]

\* the closure of with_completions_subcmd, which owns cmd_for_completions
CompletionsClosure(cmd_for_completions) ==
    [kind |-> "completions", cmd_for_completions |-> cmd_for_completions]

\* a mutation of WithCompletionsSubcmd: the closure owns a clone of self.cmd
\* to which the completions command was not added
WithCompletionsSubcmdBareSnapshot(self) ==
    LET completions_without_handler == Arg(New("completions"), ShellArg)
        completions ==
            Handler(completions_without_handler, CompletionsClosure(self.cmd))
    IN  Subcommand(self, completions)

\* Command::with_completions_subcmd
WithCompletionsSubcmd(self) ==
    LET completions_without_handler == Arg(New("completions"), ShellArg)
        cmd_for_completions ==
            ClapSubcommand(self.cmd, completions_without_handler.cmd)
        completions ==
            Handler(completions_without_handler,
                    CompletionsClosure(cmd_for_completions))
    IN  Subcommand(self, completions)

----------------------------------------------------------------------------
(* Command: dispatch.  A dispatch threads st = [res, err, ctx, calls, out]: *)
(* the Result so far, the context, the handler invocations and the output. *)

\* a mutation of StartSt: the dispatch starts from a fresh context instead
\* of the caller's
StartStFresh(c, o) == [res |-> "Ok", err |-> "", ctx |-> <<>>, calls |-> <<>>, out |-> o]

\* the state a dispatch starts in: the caller's &mut ctx, no handler invoked
StartSt(c, o) == [res |-> "Ok", err |-> "", ctx |-> c, calls |-> <<>>, out |-> o]

Failed(st, e) == [st EXCEPT !.res = "Err", !.err = e]

Panicked(st, e) == [st EXCEPT !.res = "Panic", !.err = e]

\* clap_complete::generate(shell, cmd, bin_name, stdout)
Generate(shell, cmd, bin_name) ==
    [kind |-> "script", shell |-> shell, cmd |-> cmd, bin_name |-> bin_name]

\* a caller-supplied handler: mutates the context, then succeeds or fails
CustomHandler(h, self, m, st) ==
    LET st1 == [st EXCEPT !.ctx = Append(@, h.id)]
    IN  IF h.ok THEN st1 ELSE Failed(st1, h.id)

\* the closure installed by with_completions_subcmd
CompletionsHandler(h, self, m, st) ==
    IF "shell" \notin DOMAIN m.args
    THEN Panicked(st, "get_one(shell) unwrap")
    ELSE IF m.args["shell"] \notin Shells
    THEN Panicked(st, "parse shell unwrap")
    ELSE LET bin_name == h.cmd_for_completions.name
         IN  [st EXCEPT !.out = Append(@, Generate(m.args["shell"],
                                                    h.cmd_for_completions,
                                                    bin_name))]

RECURSIVE ExecWith(_, _, _)

\* a mutation of DispatchSubcmd: the child is executed with the parent's
\* matches instead of the sub-matches scoped to the child
DispatchSubcmdUnscoped(self, m, st) ==
    IF SubcommandOf(m) # None
    THEN LET subcmd_name == SubcommandOf(m)[1].name
         IN  IF subcmd_name \in DOMAIN self.subcmds
             THEN ExecWith(self.subcmds[subcmd_name], m, st)
             ELSE Failed(st, "no subcommand handler")
    ELSE st

\* a mutation of DispatchSubcmd: matches that select no child are an error
DispatchSubcmdStrict(self, m, st) ==
    IF SubcommandOf(m) # None
    THEN LET subcmd_name    == SubcommandOf(m)[1].name
             subcmd_matches == SubcommandOf(m)[1].m
         IN  IF subcmd_name \in DOMAIN self.subcmds
             THEN ExecWith(self.subcmds[subcmd_name], subcmd_matches, st)
             ELSE Failed(st, "no subcommand handler")
    ELSE Failed(st, "no subcommand given")

\* Command::dispatch_subcmd
DispatchSubcmd(self, m, st) ==
    IF SubcommandOf(m) # None
    THEN LET subcmd_name    == SubcommandOf(m)[1].name
             subcmd_matches == SubcommandOf(m)[1].m
         IN  IF subcmd_name \in DOMAIN self.subcmds
             THEN ExecWith(self.subcmds[subcmd_name], subcmd_matches, st)
             ELSE Failed(st, "no subcommand handler")
    ELSE st

\* Command::exec_with: (self.handler)(self, m, ctx)
ExecWith(self, m, st) ==
    LET st1 == [st EXCEPT !.calls =
                    Append(@, [node |-> GetName(self), handler |-> self.handler,
                               m |-> m])]
    IN  CASE self.handler.kind = "dispatch_subcmd" -> DispatchSubcmd(self, m, st1)
          [] self.handler.kind = "custom" -> CustomHandler(self.handler, self, m, st1)
          [] self.handler.kind = "completions" ->
                 CompletionsHandler(self.handler, self, m, st1)

\* a mutation of ExecFrom: the handler runs although the tokens do not parse
ExecFromUnchecked(self, iter, st) ==
    LET r == TryGetMatchesFrom(self.cmd, iter)
    IN  ExecWith(self, IF r.ok THEN r.m ELSE NoMatches, st)

\* Command::exec_from: a parse error is returned before any handler runs
ExecFrom(self, iter, st) ==
    LET r == TryGetMatchesFrom(self.cmd, iter)
    IN  IF ~r.ok THEN Failed(st, r.err) ELSE ExecWith(self, r.m, st)

----------------------------------------------------------------------------
(* shell_words::split on a line, a sequence of characters.  A word        *)
(* character is any string other than the blank and the single quote.     *)

Blank == " "

Quote == "'"

RECURSIVE SplitFrom(_, _, _, _)
\* state is Delimiter, Unquoted or SingleQuoted; word is the word being
\* built, words the words finished so far
SplitFrom(state, chars, word, words) ==
    IF chars = <<>>
    THEN CASE state = "Delimiter"    -> [ok |-> TRUE, words |-> words]
           [] state = "Unquoted"     -> [ok |-> TRUE, words |-> Append(words, word)]
           [] state = "SingleQuoted" -> [ok |-> FALSE, words |-> <<>>]
    ELSE LET c == Head(chars)
             rest == Tail(chars)
         IN  CASE state = "Delimiter" ->
                    IF c = Quote THEN SplitFrom("SingleQuoted", rest, word, words)
                    ELSE IF c = Blank THEN SplitFrom("Delimiter", rest, word, words)
                    ELSE SplitFrom("Unquoted", rest, word \o c, words)
               [] state = "Unquoted" ->
                    IF c = Quote THEN SplitFrom("SingleQuoted", rest, word, words)
                    ELSE IF c = Blank
                    THEN SplitFrom("Delimiter", rest, "", Append(words, word))
                    ELSE SplitFrom("Unquoted", rest, word \o c, words)
               [] state = "SingleQuoted" ->
                    IF c = Quote THEN SplitFrom("Unquoted", rest, word, words)
                    ELSE SplitFrom("SingleQuoted", rest, word \o c, words)

\* shell_words::split(&line)
Split(l) == SplitFrom("Delimiter", l, "", <<>>)

----------------------------------------------------------------------------
(* Inputs *)

\* process argument vectors; the first item is the binary name
Argvs ==
    { <<"app">>, <<"app", "a">>, <<"app", "a", "b">>, <<"app", "b">>,
      <<"app", "a", "--bogus">>, <<"app", "completions", "bash">>,
      <<"app", "completions">>, <<"app", "completions", "tcsh">> }

\* lines typed at the prompt, as sequences of characters
Lines ==
    { <<>>, <<"a">>, <<"a", " ", "b">>, <<"'", "a", "'">>, <<"'", "a">>,
      <<"a", " ", "--bogus">>, <<"c">>, <<"completions", " ", "bash">> }

\* printed messages
Msg(kind, text) == [kind |-> kind, text |-> text]

Top == Len(stack)

\* the command the program runs: the root of the tree that was built
Cmd == stack[1]

----------------------------------------------------------------------------
(* Spec: the builder calls, then one one-shot execution of the root *)

Init ==
    /\ stack = <<>>
    /\ regs = <<>>
    /\ builderCalls = 0
    /\ pc = "Build"
    /\ argv = None
    /\ m0 = None
    /\ ctx = <<>>
    /\ calls = <<>>
    /\ out = <<>>
    /\ history = <<>>
    /\ line = None
    /\ reads = 0
    /\ last = [kind |-> "init"]
    /\ ret = None
    /\ rootExecs = 0

CanBuild == pc = "Build" /\ builderCalls < MaxBuilderCalls

RunUnchanged ==
    UNCHANGED <<pc, argv, m0, ctx, calls, out, history, line, reads, last, ret, rootExecs>>

\* replace the command on top of the stack
SetTop(c) == stack' = [stack EXCEPT ![Top] = c]

\* Command::new(name)
BuildNew ==
    /\ CanBuild
    /\ Top < MaxDepth
    /\ \E name \in Names : stack' = Append(stack, New(name))
    /\ regs' = Append(regs, <<>>)
    /\ builderCalls' = builderCalls + 1
    /\ RunUnchanged

\* cmd.name(name)
BuildName ==
    /\ CanBuild
    /\ Top >= 1
    /\ \E name \in Names : SetTop(Name(stack[Top], name))
    /\ builderCalls' = builderCalls + 1
    /\ UNCHANGED regs
    /\ RunUnchanged

\* cmd.handler(h)
BuildHandler ==
    /\ CanBuild
    /\ Top >= 1
    /\ \E h \in CustomHandlers : SetTop(Handler(stack[Top], h))
    /\ builderCalls' = builderCalls + 1
    /\ UNCHANGED regs
    /\ RunUnchanged

\* cmd.subcommand_required_else_help(yes)
BuildSubcommandRequiredElseHelp ==
    /\ CanBuild
    /\ Top >= 1
    /\ \E yes \in BOOLEAN : SetTop(SubcommandRequiredElseHelp(stack[Top], yes))
    /\ builderCalls' = builderCalls + 1
    /\ UNCHANGED regs
    /\ RunUnchanged

\* parent.subcommand(child): the command on top is moved into the one below
BuildSubcommand ==
    /\ CanBuild
    /\ Top >= 2
    /\ stack' = Append(SubSeq(stack, 1, Top - 2),
                       Subcommand(stack[Top - 1], stack[Top]))
    /\ regs' = Append(SubSeq(regs, 1, Top - 2),
                      Append(regs[Top - 1], stack[Top]))
    /\ builderCalls' = builderCalls + 1
    /\ RunUnchanged

\* parent.subcommands([c1, c2, ..]): the commands above the parent are moved
\* into it in order
BuildSubcommands ==
    /\ CanBuild
    /\ \E i \in 1..(Top - 2) :
          LET children == SubSeq(stack, i + 1, Top)
          IN  /\ stack' = Append(SubSeq(stack, 1, i - 1),
                                 Subcommands(stack[i], children))
              /\ regs' = Append(SubSeq(regs, 1, i - 1), regs[i] \o children)
    /\ builderCalls' = builderCalls + 1
    /\ RunUnchanged

\* cmd.with_completions_subcmd()
BuildWithCompletionsSubcmd ==
    /\ CanBuild
    /\ Top >= 1
    /\ SetTop(WithCompletionsSubcmd(stack[Top]))
    /\ regs' = [regs EXCEPT ![Top] =
                   Append(@, WithCompletionsSubcmd(stack[Top]).subcmds["completions"])]
    /\ builderCalls' = builderCalls + 1
    /\ RunUnchanged

CanRun == pc = "Build" /\ Top = 1

\* the caller's view of a finished dispatch
Finish(st) ==
    /\ ctx' = st.ctx
    /\ calls' = st.calls
    /\ out' = st.out
    /\ ret' = IF st.res = "Panic" THEN None ELSE Some([res |-> st.res, err |-> st.err])
    /\ pc' = IF st.res = "Panic" THEN "Panicked" ELSE "Returned"

\* Command::exec: get_matches prints the error and exits the process when the
\* process arguments do not parse
Exec ==
    /\ CanRun
    /\ \E args \in Argvs :
          LET r == TryGetMatchesFrom(Cmd.cmd, args)
          IN  /\ argv' = Some(args)
              /\ IF ~r.ok
                 THEN /\ pc' = "Exited"
                      /\ out' = Append(out, Msg("clap error", r.err))
                      /\ UNCHANGED <<m0, ctx, calls, ret, rootExecs>>
                 ELSE /\ m0' = Some(r.m)
                      /\ rootExecs' = rootExecs + 1
                      /\ Finish(ExecWith(Cmd, r.m, StartSt(ctx, out)))
    /\ UNCHANGED <<stack, regs, builderCalls, history, line, reads, last>>

\* Command::exec_from(iter, ctx)
CallExecFrom ==
    /\ CanRun
    /\ \E iter \in Argvs :
          LET r == TryGetMatchesFrom(Cmd.cmd, iter)
          IN  /\ argv' = Some(iter)
              /\ m0' = IF r.ok THEN Some(r.m) ELSE None
              /\ rootExecs' = IF r.ok THEN rootExecs + 1 ELSE rootExecs
              /\ Finish(ExecFrom(Cmd, iter, StartSt(ctx, out)))
    /\ UNCHANGED <<stack, regs, builderCalls, history, line, reads, last>>

Next ==
    \/ BuildNew
    \/ BuildName
    \/ BuildHandler
    \/ BuildSubcommandRequiredElseHelp
    \/ BuildSubcommand
    \/ BuildSubcommands
    \/ BuildWithCompletionsSubcmd
    \/ Exec
    \/ CallExecFrom

Spec == Init /\ [][Next]_vars

----------------------------------------------------------------------------
(* SpecRepl: repl(cmd, ctx, prompt) on a tree made by the builder *)

Handlers == {DefaultHandler} \cup CustomHandlers

\* app -> a -> b, each with the given handler, with or without completions
ReplTree(rh, ah, bh, completions) ==
    LET b    == Handler(New("b"), bh)
        a    == Subcommand(Handler(New("a"), ah), b)
        root == Subcommand(Handler(New(RootName), rh), a)
    IN  IF completions THEN WithCompletionsSubcmd(root) ELSE root

ReplTrees ==
    { ReplTree(rh, ah, bh, c) :
        rh \in Handlers, ah \in Handlers, bh \in CustomHandlers, c \in BOOLEAN }

InitRepl ==
    /\ stack \in {<<t>> : t \in ReplTrees}
    /\ regs = <<<<>>>>
    /\ builderCalls = 0
    /\ pc = "Startup"
    /\ argv \in {Some(a) : a \in Argvs}
    /\ m0 = None
    /\ ctx = <<>>
    /\ calls = <<>>
    /\ out = <<>>
    /\ history = <<>>
    /\ line = None
    /\ reads = 0
    /\ last = [kind |-> "init"]
    /\ ret = None
    /\ rootExecs = 0

TreeUnchanged == UNCHANGED <<stack, regs, builderCalls, argv, ret>>

\* let m = cmd.get_matches(): clap prints the error and exits the process
\* when the process arguments do not parse
StartupGetMatches ==
    /\ pc = "Startup"
    /\ LET r == TryGetMatchesFrom(Cmd.cmd, argv[1])
       IN  IF ~r.ok
           THEN /\ pc' = "Exited"
                /\ out' = Append(out, Msg("clap error", r.err))
                /\ UNCHANGED m0
           ELSE /\ pc' = "StartupExec"
                /\ m0' = Some(r.m)
                /\ UNCHANGED out
    /\ last' = [kind |-> "get_matches"]
    /\ UNCHANGED <<ctx, calls, history, line, reads, rootExecs>>
    /\ TreeUnchanged

\* cmd.exec_with(&m, &mut ctx).unwrap(): an Err panics
StartupExecWith ==
    /\ pc = "StartupExec"
    /\ LET st == ExecWith(Cmd, m0[1], StartSt(ctx, out))
       IN  /\ ctx' = st.ctx
           /\ calls' = st.calls
           /\ out' = st.out
           /\ pc' = IF st.res = "Ok" THEN "StartupBranch" ELSE "Panicked"
           /\ last' = [kind |-> "exec_with", res |-> st.res, err |-> st.err]
    /\ rootExecs' = rootExecs + 1
    /\ UNCHANGED <<m0, history, line, reads>>
    /\ TreeUnchanged

\* a mutation of EntersLoop: the loop is entered whatever the matches are
EntersLoopAlways(m) == TRUE

\* the condition of `if m.subcommand().is_none()`
EntersLoop(m) == SubcommandOf(m) = None

\* if m.subcommand().is_none() { let mut editor = DefaultEditor::new().unwrap();
\* loop { .. } }: without a sub-command the loop is entered, else repl returns
StartupBranch ==
    /\ pc = "StartupBranch"
    /\ IF EntersLoop(m0[1])
       THEN \E editorOk \in BOOLEAN :
               /\ pc' = IF editorOk THEN "AwaitingLine" ELSE "Panicked"
               /\ last' = [kind |-> "editor", ok |-> editorOk]
       ELSE /\ pc' = "Returned"
            /\ last' = [kind |-> "one-shot"]
    /\ UNCHANGED <<m0, ctx, calls, out, history, line, reads, rootExecs>>
    /\ TreeUnchanged

\* outcomes of editor.readline(prompt); a line or an interruption is drawn
\* only while the run has reads left
ReadOutcomes ==
    {[kind |-> "Eof"], [kind |-> "Other"]}
      \cup (IF reads < MaxReads
            THEN {[kind |-> "Interrupted"]} \cup {[kind |-> "Line", text |-> l] : l \in Lines}
            ELSE {})

\* a mutation of MatchLine: an interruption ends the loop
MatchLineFatalInterrupt(o, o_out) ==
    CASE o.kind = "Line" -> [pc |-> "Processing", line |-> Some(o.text), out |-> o_out]
      [] o.kind = "Eof" -> [pc |-> "Terminated", line |-> None, out |-> o_out]
      [] o.kind = "Interrupted" ->
            [pc |-> "Terminated", line |-> None,
             out |-> Append(o_out, Msg("hint", "press CTRL-D to exit"))]
      [] o.kind = "Other" ->
            [pc |-> "Terminated", line |-> None,
             out |-> Append(o_out, Msg("readline error", "e"))]

\* match line { Ok(line) => .., Err(Eof) => break,
\*              Err(Interrupted) => println!(..), Err(e) => { println!(..); break } }
\* gives where the loop goes, the line to process and the output
MatchLine(o, o_out) ==
    CASE o.kind = "Line" -> [pc |-> "Processing", line |-> Some(o.text), out |-> o_out]
      [] o.kind = "Eof" -> [pc |-> "Terminated", line |-> None, out |-> o_out]
      [] o.kind = "Interrupted" ->
            [pc |-> "AwaitingLine", line |-> None,
             out |-> Append(o_out, Msg("hint", "press CTRL-D to exit"))]
      [] o.kind = "Other" ->
            [pc |-> "Terminated", line |-> None,
             out |-> Append(o_out, Msg("readline error", "e"))]

\* let line = editor.readline(prompt); match line { .. }
ReadLine ==
    /\ pc = "AwaitingLine"
    /\ \E o \in ReadOutcomes :
          /\ pc' = MatchLine(o, out).pc
          /\ line' = MatchLine(o, out).line
          /\ out' = MatchLine(o, out).out
          /\ last' = [kind |-> "read", outcome |-> o.kind]
    /\ reads' = reads + 1
    /\ UNCHANGED <<m0, ctx, calls, history, rootExecs>>
    /\ TreeUnchanged

\* a mutation of AfterExecFrom: the error is not caught but ends the loop
AfterExecFromUncaught(st) ==
    [pc  |-> IF st.res = "Ok" THEN "AwaitingLine"
             ELSE IF st.res = "Err" THEN "Terminated" ELSE "Panicked",
     out |-> st.out]

\* if let Err(e) = cmd.exec_from(input, &mut ctx) { println!("{:?}", e); }
\* and the loop goes on; a panic of a handler unwinds out of repl
AfterExecFrom(st) ==
    [pc  |-> IF st.res = "Panic" THEN "Panicked" ELSE "AwaitingLine",
     out |-> IF st.res = "Err" THEN Append(st.out, Msg("error", st.err))
             ELSE st.out]

\* the tokens of the line alone, without a leading name
ReplInputNoName(cmd, args) == args

\* let input = std::iter::once(cmd.get_name().into()).chain(args)
ReplInput(cmd, args) == <<GetName(cmd)>> \o args

\* the Ok(line) arm once the history entry is added: split, exec_from, print
ProcessLine(l) ==
    LET sp == Split(l)
    IN  IF ~sp.ok
        THEN /\ out' = Append(out, Msg("parse error", "missing closing quote"))
             /\ pc' = "AwaitingLine"
             /\ last' = [kind |-> "process", history |-> TRUE, split |-> FALSE,
                         parsed |-> FALSE, res |-> "None", err |-> "",
                         input |-> <<>>]
             /\ calls' = <<>>
             /\ UNCHANGED <<ctx, rootExecs>>
        ELSE LET input == ReplInput(Cmd, sp.words)
                 r     == TryGetMatchesFrom(Cmd.cmd, input)
                 st    == ExecFrom(Cmd, input, StartSt(ctx, out))
             IN  /\ ctx' = st.ctx
                 /\ calls' = st.calls
                 /\ out' = AfterExecFrom(st).out
                 /\ pc' = AfterExecFrom(st).pc
                 /\ rootExecs' = IF r.ok THEN rootExecs + 1 ELSE rootExecs
                 /\ last' = [kind |-> "process", history |-> TRUE, split |-> TRUE,
                             parsed |-> r.ok, res |-> st.res, err |-> st.err,
                             input |-> input]

\* the history left by an add_history_entry that tokenizes first
HistoryAfterIfSplits(h, l) == IF Split(l).ok THEN Append(h, l) ELSE h

\* editor.add_history_entry(&line) returning Ok: the line as read is the
\* newest entry, whatever the tokenizer will say about it
HistoryAfter(h, l) == Append(h, l)

\* Ok(line) => { editor.add_history_entry(&line).unwrap(); .. }
Process ==
    /\ pc = "Processing"
    /\ \E historyOk \in BOOLEAN :
          IF ~historyOk
          THEN /\ pc' = "Panicked"
               /\ last' = [kind |-> "process", history |-> FALSE, split |-> FALSE,
                           parsed |-> FALSE, res |-> "None", err |-> "",
                           input |-> <<>>]
               /\ calls' = <<>>
               /\ UNCHANGED <<ctx, out, history, rootExecs>>
          ELSE /\ history' = HistoryAfter(history, line[1])
               /\ ProcessLine(line[1])
    /\ UNCHANGED <<m0, line, reads>>
    /\ TreeUnchanged

\* the loop was left by break: repl returns
Return ==
    /\ pc = "Terminated"
    /\ pc' = "Returned"
    /\ last' = [kind |-> "return"]
    /\ UNCHANGED <<m0, ctx, calls, out, history, line, reads, rootExecs>>
    /\ TreeUnchanged

NextRepl ==
    \/ StartupGetMatches
    \/ StartupExecWith
    \/ StartupBranch
    \/ ReadLine
    \/ Process
    \/ Return

SpecRepl == InitRepl /\ [][NextRepl]_vars

\* repl keeps running: a call that can return does, and the reader answers
\* (with end-of-input or a read error once the run has no reads left)
SpecReplFair == SpecRepl /\ WF_vars(NextRepl)

----------------------------------------------------------------------------
(* Claims about repl, checked under SpecRepl *)

\* the startup matches resolved a sub-command
OneShot == m0 # None /\ SubcommandOf(m0[1]) # None

\* the startup matches resolved no sub-command
NoSubcommand == m0 # None /\ SubcommandOf(m0[1]) = None

\* C1: when the initial arguments resolve a sub-command, exec_with is called
\* on the root exactly once (once the startup dispatch has run) and the loop
\* is never entered: no read of the line reader, no line processed.
C1_OneShotContract ==
    OneShot =>
        /\ pc \notin {"AwaitingLine", "Processing", "Terminated"}
        /\ reads = 0
        /\ history = <<>>
        /\ rootExecs = (IF pc = "StartupExec" THEN 0 ELSE 1)

C1_Witness ==
    /\ OneShot
    /\ pc = "Returned"
    /\ rootExecs = 1
    /\ Len(calls) = 3
    /\ ctx # <<>>

\* C2: when the initial arguments resolve no sub-command, repl gets from
\* Startup to AwaitingLine whatever the root's handler does: once Startup is
\* over, the loop is awaiting a line or has read one.
C2_NoSubcommandContract ==
    (NoSubcommand /\ pc \notin {"StartupExec", "StartupBranch"}) =>
        (pc = "AwaitingLine" \/ reads >= 1)

\* the line being processed does not tokenize
LineFailsSplit == line # None /\ ~Split(line[1]).ok

\* the tokens of the line being processed, behind the root's name
LineInput == <<GetName(Cmd)>> \o Split(line[1]).words

\* the line being processed tokenizes and its tokens do not parse
LineFailsParse ==
    /\ line # None
    /\ Split(line[1]).ok
    /\ ~TryGetMatchesFrom(Cmd.cmd, LineInput).ok

\* the line being processed is dispatched and a handler returns an error
LineFailsHandler ==
    /\ line # None
    /\ Split(line[1]).ok
    /\ TryGetMatchesFrom(Cmd.cmd, LineInput).ok
    /\ ExecFrom(Cmd, LineInput, StartSt(ctx, out)).res = "Err"

\* a step of Process in which the line got past the history entry
ProcessedLine == pc = "Processing" /\ history' # history

\* C3: a line that causes a tokenize error or an argument-parse error invokes
\* no handler, leaves the context as it was, prints one error message and
\* leaves the loop in AwaitingLine, where the next read is enabled.
C3_ParseErrorResiliency ==
    [][(ProcessedLine /\ (LineFailsSplit \/ LineFailsParse)) =>
          /\ calls' = <<>>
          /\ ctx' = ctx
          /\ rootExecs' = rootExecs
          /\ Len(out') = Len(out) + 1
          /\ SubSeq(out', 1, Len(out)) = out
          /\ out'[Len(out')].kind = (IF LineFailsSplit THEN "parse error" ELSE "error")
          /\ pc' = "AwaitingLine"
          /\ reads' = reads]_vars

C3_Witness ==
    /\ pc = "AwaitingLine"
    /\ last.kind = "process"
    /\ last.split
    /\ ~last.parsed
    /\ Len(history) = 2
    /\ ctx # <<>>
    /\ out[Len(out)].kind = "error"

\* C4: a line whose dispatched handler returns an error has the error caught
\* in the loop: its message is printed, repl neither returns nor panics, and
\* the loop is back in AwaitingLine.
C4_HandlerErrorResiliency ==
    [][(ProcessedLine /\ LineFailsHandler) =>
          /\ pc' = "AwaitingLine"
          /\ calls' # <<>>
          /\ Len(out') >= 1
          /\ out'[Len(out')] =
                 Msg("error", ExecFrom(Cmd, LineInput, StartSt(ctx, out)).err)
          /\ ret' = ret
          /\ reads' = reads]_vars

C4_Witness ==
    /\ pc = "AwaitingLine"
    /\ last.kind = "process"
    /\ last.parsed
    /\ last.res = "Err"
    /\ Len(calls) = 3
    /\ out[Len(out)] = Msg("error", "h2")

\* C9: a read of the line reader has exactly four outcomes: a line goes to
\* Processing and prints nothing; end-of-input goes to Terminated and prints
\* nothing; an interruption prints the hint and stays in AwaitingLine; any
\* other read error prints the error and goes to Terminated.
C9_AwaitingLineTransitions ==
    [][pc = "AwaitingLine" =>
          /\ last'.kind = "read"
          /\ reads' = reads + 1
          /\ ctx' = ctx
          /\ CASE last'.outcome = "Line" ->
                     pc' = "Processing" /\ line' # None /\ out' = out
               [] last'.outcome = "Eof" ->
                     pc' = "Terminated" /\ out' = out
               [] last'.outcome = "Interrupted" ->
                     /\ pc' = "AwaitingLine"
                     /\ out' = Append(out, Msg("hint", "press CTRL-D to exit"))
               [] last'.outcome = "Other" ->
                     /\ pc' = "Terminated"
                     /\ out' = Append(out, Msg("readline error", "e"))
               [] OTHER -> FALSE]_vars

\* two interruptions in a row, and the loop still awaits a line
C9_Witness ==
    /\ pc = "AwaitingLine"
    /\ reads = 2
    /\ Len(out) = 2
    /\ out[1].kind = "hint"
    /\ out[2].kind = "hint"

----------------------------------------------------------------------------
(* Claims about the builder and one-shot dispatch, checked under Spec *)

RECURSIVE PathOf(_)
\* the names of the sub-commands resolved by matches m, outermost first
PathOf(m) ==
    IF SubcommandOf(m) = None THEN <<>>
    ELSE <<SubcommandOf(m)[1].name>> \o PathOf(SubcommandOf(m)[1].m)

RECURSIVE MatchesAt(_, _)
\* the sub-matches of m scoped to the i-th command of its path (0: m itself)
MatchesAt(m, i) == IF i = 0 THEN m ELSE MatchesAt(SubcommandOf(m)[1].m, i - 1)

RECURSIVE InTree(_, _, _)
\* the first i names of path are found in the child mappings below node
InTree(node, path, i) ==
    \/ i = 0
    \/ /\ path[1] \in DOMAIN node.subcmds
       /\ InTree(node.subcmds[path[1]], Tail(path), i - 1)

RECURSIVE NodeAt(_, _, _)
\* the node reached from node along the first i names of path
NodeAt(node, path, i) ==
    IF i = 0 THEN node ELSE NodeAt(node.subcmds[path[1]], Tail(path), i - 1)

\* the i-th command of path is in the tree and all commands above it carry
\* the default handler
Delegated(node, path, i) ==
    /\ InTree(node, path, i)
    /\ \A j \in 0..(i - 1) : NodeAt(node, path, j).handler.kind = "dispatch_subcmd"

\* the invocation of the i-th command of the path of m
Invocation(node, m, i) ==
    [node    |-> GetName(NodeAt(node, PathOf(m), i)),
     handler |-> NodeAt(node, PathOf(m), i).handler,
     m       |-> MatchesAt(m, i)]

\* a dispatch from the root has run on matches that resolve a sub-command
DispatchedDeep ==
    /\ pc \in {"Returned", "Panicked"}
    /\ m0 # None
    /\ Len(PathOf(m0[1])) >= 1

\* C5 as claimed: on a resolved path the handler of the deepest node is the
\* one invoked, with the sub-matches of its own node, and no custom handler
\* of an ancestor is invoked.
C5_DeepestHandlerOnly ==
    DispatchedDeep =>
        LET path == PathOf(m0[1])
            n    == Len(path)
        IN  /\ InTree(Cmd, path, n)
            /\ calls # <<>>
            /\ calls[Len(calls)] = Invocation(Cmd, m0[1], n)
            /\ \A i \in 1..(Len(calls) - 1) : calls[i].handler.kind = "dispatch_subcmd"

\* C5 amended: dispatch invokes the handlers along the resolved path from the
\* root down, each with the sub-matches of its own position; it goes below a
\* node only through the default handler and the child mapping, so it ends at
\* the first node that has a custom handler or no entry for the next name.
\* The deepest node's handler runs, once, exactly when all its ancestors
\* delegate, and then no custom handler of an ancestor has run.
C5_DispatchAlongPath ==
    DispatchedDeep =>
        LET m    == m0[1]
            path == PathOf(m)
            n    == Len(path)
            k    == CHOOSE i \in 0..n :
                        /\ Delegated(Cmd, path, i)
                        /\ (i = n \/ ~Delegated(Cmd, path, i + 1))
        IN  /\ Len(calls) = k + 1
            /\ \A i \in 0..k : calls[i + 1] = Invocation(Cmd, m, i)
            /\ \A i \in 1..k : calls[i].handler.kind = "dispatch_subcmd"
            /\ Delegated(Cmd, path, n) =>
                  /\ calls[Len(calls)] = Invocation(Cmd, m, n)
                  /\ SubcommandOf(calls[Len(calls)].m) = None
                  /\ ctx = (IF calls[Len(calls)].handler.kind = "custom"
                            THEN <<calls[Len(calls)].handler.id>> ELSE <<>>)

\* a path of two sub-commands under default handlers ends in b's own handler
C5_Witness ==
    /\ DispatchedDeep
    /\ PathOf(m0[1]) = <<"a", "b">>
    /\ Len(calls) = 3
    /\ calls[1].handler.kind = "dispatch_subcmd"
    /\ calls[2].handler.kind = "dispatch_subcmd"
    /\ calls[3].node = "b"
    /\ calls[3].handler.kind = "custom"
    /\ ctx = <<calls[3].handler.id>>

\* the children registered on stack entry i under name n, in order
RegisteredAs(i, n) == SelectSeq(regs[i], LAMBDA c : GetName(c) = n)

\* the child registered last on stack entry i under name n
LastRegistered(i, n) == RegisteredAs(i, n)[Len(RegisteredAs(i, n))]

\* matches that select the child named n and nothing else
Selecting(n) == [args |-> EmptyMap, sub |-> Some([name |-> n, m |-> NoMatches])]

\* C6: after any sequence of registrations on a command, its child mapping
\* has exactly the registered names, the entry of each name is the node
\* registered last under that name, and the default handler delegates to
\* that node.
C6_LastWriteWins ==
    \A i \in 1..Top :
        /\ DOMAIN stack[i].subcmds = {GetName(regs[i][j]) : j \in 1..Len(regs[i])}
        /\ \A n \in DOMAIN stack[i].subcmds :
              /\ stack[i].subcmds[n] = LastRegistered(i, n)
              /\ DispatchSubcmd(stack[i], Selecting(n), StartSt(<<>>, <<>>))
                    = ExecWith(LastRegistered(i, n), NoMatches, StartSt(<<>>, <<>>))

\* two different nodes were registered under one name beside another child
C6_Witness ==
    \E i \in 1..Top : \E n \in Names :
        /\ Len(RegisteredAs(i, n)) = 2
        /\ RegisteredAs(i, n)[1] # RegisteredAs(i, n)[2]
        /\ stack[i].subcmds[n] = RegisteredAs(i, n)[2]
        /\ Cardinality(DOMAIN stack[i].subcmds) = 2

\* the scripts produced by clap_complete::generate so far
Scripts == SelectSeq(out, LAMBDA o : o.kind = "script")

\* the clap::Command of the completions node before it gets its handler
CompletionsCmd == ClapArg(ClapNew("completions"), ShellArg)

ClosureOf(c) == c.subcmds["completions"].handler

C8_BinNameIsRootName ==
    \A i \in 1..Len(Scripts) : Scripts[i].bin_name = GetName(Cmd)

\* the one-shot call met an argument-parse error or a handler error
OneShotError ==
    /\ argv # None
    /\ LET r == TryGetMatchesFrom(Cmd.cmd, argv[1])
       IN  \/ ~r.ok
           \/ ExecWith(Cmd, r.m, StartSt(<<>>, <<>>)).res = "Err"

\* C10 as claimed: an argument-parse error or a handler error of a one-shot
\* call comes back to the caller as an error value; the process is neither
\* exited nor aborted.
C10_OneShotErrorsReturned ==
    (pc # "Build" /\ OneShotError) =>
        /\ pc = "Returned"
        /\ ret # None
        /\ ret[1].res = "Err"

\* C11: repl ends only by returning normally: no step of Startup,
\* AwaitingLine or Processing exits the process or aborts it, and repl has
\* returned only after the startup dispatch alone (one-shot) or through
\* Terminated.
C11_ReplOnlyReturns ==
    /\ pc \notin {"Exited", "Panicked"}
    /\ (pc = "Returned" /\ reads >= 1) => last.kind = "return"

RECURSIVE NodesOf(_)
\* a command and all the commands registered below it
NodesOf(node) ==
    {node} \cup UNION {NodesOf(node.subcmds[n]) : n \in DOMAIN node.subcmds}

\* all the commands of the tree under construction
AllNodes == UNION {NodesOf(stack[i]) : i \in 1..Top}

\* the child names of a command's argument specification are the keys of its
\* child mapping, and each key is the name of the child stored under it
Lockstep(node) ==
    /\ ClapSubNames(node.cmd) = DOMAIN node.subcmds
    /\ \A n \in DOMAIN node.subcmds : GetName(node.subcmds[n]) = n

\* the error of the else branch of dispatch_subcmd
UnknownSubcommand == "no subcommand handler"

\* C12: at every command the child names of the argument specification and
\* the keys of the child mapping agree, and a dispatch on matches parsed
\* against the root's specification never fails with UnknownSubcommand.
C12_LockstepNoUnknownSubcommand ==
    /\ \A node \in AllNodes : Lockstep(node)
    /\ (pc = "Returned" /\ m0 # None) => ret[1].err # UnknownSubcommand

\* the child specifications named n in the argument specification of node
SpecsNamed(node, n) == SelectSeq(node.cmd.subs, LAMBDA c : c.name = n)

\* C13: for every child name the parent's argument specification holds
\* exactly one child specification, the one of the node stored in the child
\* mapping, so a handler receives matches parsed against its own node.
C13_ReplacementComplete ==
    \A node \in AllNodes : \A n \in DOMAIN node.subcmds :
        SpecsNamed(node, n) = <<node.subcmds[n].cmd>>


\* C14: when the completions handler of the root runs, the specification it
\* passes to the completion-script collaborator describes every child the
\* root can dispatch to at that time, other than completions.
C14_SnapshotCoversTree ==
    (pc = "Returned" /\ Len(calls) = 2 /\ Len(Scripts) = 1) =>
        (DOMAIN Cmd.subcmds \ {"completions"}) \subseteq ClapSubNames(Scripts[1].cmd)


\* C15 as claimed: a line is appended to the history when, and only when, it
\* tokenizes; a line that does not tokenize only prints the parse error and
\* leaves the loop in AwaitingLine.
C15_HistoryIffTokenizes ==
    [][(pc = "Processing" /\ pc' # "Panicked") =>
          /\ (history' = Append(history, line[1])) <=> Split(line[1]).ok
          /\ LineFailsSplit => history' = history]_vars

\* C15 amended: the line is added to the history as read, before it is
\* tokenized: either adding the entry fails and repl panics with nothing else
\* changed, or the line is the newest history entry whether or not it
\* tokenizes; a line that does not tokenize adds its history entry, prints the
\* parse error, invokes no handler, leaves the context alone and returns the
\* loop to AwaitingLine.
C15_HistoryBeforeTokenize ==
    [][pc = "Processing" =>
          \/ /\ pc' = "Panicked"
             /\ ~last'.history
             /\ history' = history
             /\ out' = out
             /\ ctx' = ctx
          \/ /\ last'.history
             /\ history' = Append(history, line[1])
             /\ LineFailsSplit =>
                   /\ out' = Append(out, Msg("parse error", "missing closing quote"))
                   /\ pc' = "AwaitingLine"
                   /\ calls' = <<>>
                   /\ ctx' = ctx
                   /\ rootExecs' = rootExecs]_vars

\* a line that does not tokenize is the newest history entry
C15_Witness ==
    /\ pc = "AwaitingLine"
    /\ last.kind = "process"
    /\ last.history
    /\ ~last.split
    /\ Len(history) = 2
    /\ Split(history[1]).ok
    /\ ~Split(history[2]).ok
    /\ out[Len(out)].kind = "parse error"


\* what a one-shot exec_from of the root does with the root's name followed
\* by the tokens of the line being processed
OneShotOfLine == ExecFrom(Cmd, LineInput, StartSt(ctx, out))

\* C16: for a line that tokenizes to T the loop calls exec_from on the root
\* with the root's name followed by T, so the handlers invoked, the matches
\* they receive, the context they leave and the result are those of a one-shot
\* exec_from of the root with that sequence.
C16_InteractiveOneShotEquivalence ==
    [][(ProcessedLine /\ Split(line[1]).ok) =>
          /\ last'.input = <<GetName(Cmd)>> \o Split(line[1]).words
          /\ calls' = OneShotOfLine.calls
          /\ ctx' = OneShotOfLine.ctx
          /\ last'.res = OneShotOfLine.res
          /\ last'.err = OneShotOfLine.err]_vars

\* a line of two tokens was dispatched two levels below the root
C16_Witness ==
    /\ pc = "AwaitingLine"
    /\ last.kind = "process"
    /\ last.parsed
    /\ last.input = <<"app", "a", "b">>
    /\ Len(calls) = 3
    /\ calls[3].handler.kind = "custom"
    /\ ctx # <<>>


\* a dispatch about to start on the caller's context c
OnContext(c) == [res |-> "Ok", err |-> "", ctx |-> c, calls |-> <<>>, out |-> <<>>]

\* the context left by the handlers of line l when they are given context c;
\* a line that does not tokenize or does not parse leaves c as it is
CtxOfLine(c, l) ==
    LET sp == Split(l)
        r  == TryGetMatchesFrom(Cmd.cmd, <<GetName(Cmd)>> \o sp.words)
    IN  IF ~sp.ok \/ ~r.ok THEN c ELSE ExecWith(Cmd, r.m, OnContext(c)).ctx

RECURSIVE CtxThreaded(_, _)
\* the context left by the lines of h, in order, starting from context c
CtxThreaded(c, h) ==
    IF h = <<>> THEN c ELSE CtxThreaded(CtxOfLine(c, Head(h)), Tail(h))

\* C17: one context is used for the whole repl run: the context is the one
\* left by the startup dispatch and then by the handlers of the lines read so
\* far, each given the context its predecessors left, in line order; lines
\* that do not tokenize or parse and interruptions change nothing; and no
\* command of the tree has a field that holds the context.
C17_SingleThreadedContext ==
    /\ \A node \in AllNodes : DOMAIN node = {"cmd", "handler", "subcmds"}
    /\ (m0 = None \/ pc = "StartupExec") => (ctx = <<>> /\ history = <<>>)
    /\ (m0 # None /\ pc # "StartupExec") =>
           ctx = CtxThreaded(ExecWith(Cmd, m0[1], OnContext(<<>>)).ctx, history)

\* the startup dispatch and the second line changed the context, the first
\* line did not tokenize
C17_Witness ==
    /\ pc = "AwaitingLine"
    /\ last.kind = "process"
    /\ Len(history) = 2
    /\ ~Split(history[1]).ok
    /\ Len(ctx) = 2
    /\ Len(calls) = 1


\* the invocation of command node with matches m
CallOf(node, m) == [node |-> GetName(node), handler |-> node.handler, m |-> m]

\* C18: a command with the default handler executed with matches that select
\* no child returns success, invokes no other handler and leaves the context
\* (and the output) unchanged; in a dispatch from the root such an invocation
\* is the last one and the dispatch returns Ok with the context as it was.
C18_DefaultHandlerNoChild ==
    /\ \A node \in AllNodes :
           node.handler.kind = "dispatch_subcmd" =>
               ExecWith(node, NoMatches, OnContext(<<"c">>))
                   = [OnContext(<<"c">>) EXCEPT !.calls = <<CallOf(node, NoMatches)>>]
    /\ \A i \in 1..Len(calls) :
           (calls[i].handler.kind = "dispatch_subcmd"
               /\ SubcommandOf(calls[i].m) = None) =>
               /\ i = Len(calls)
               /\ pc = "Returned"
               /\ ret = Some([res |-> "Ok", err |-> ""])
               /\ ctx = <<>>
               /\ out = <<>>

\* a dispatch from the root ended in the default handler of child a, which
\* was given matches without a sub-command
C18_Witness ==
    /\ pc = "Returned"
    /\ Len(calls) = 2
    /\ calls[2].node = "a"
    /\ calls[2].handler.kind = "dispatch_subcmd"
    /\ SubcommandOf(calls[2].m) = None
    /\ DOMAIN Cmd.subcmds["a"].subcmds # {}
    /\ ret = Some([res |-> "Ok", err |-> ""])


\* a read has just yielded end-of-input or another read error
ReadEnded == last.kind = "read" /\ last.outcome \in {"Eof", "Other"}

\* C19: Terminated is absorbing (from it repl only returns: nothing is read
\* and no handler is invoked), the loop gets to Terminated exactly by a read
\* that yields end-of-input or another read error, and a loop that was
\* entered eventually reaches Terminated, however many lines fail or are
\* interrupted before.
C19_LoopTermination ==
    /\ [][pc = "Terminated" =>
            /\ pc' = "Returned"
            /\ reads' = reads
            /\ calls' = calls
            /\ ctx' = ctx
            /\ history' = history]_vars
    /\ [](pc = "Terminated" => ReadEnded)
    /\ [][(pc = "AwaitingLine" /\ ReadEnded') => pc' = "Terminated"]_vars
    /\ (pc = "AwaitingLine") ~> (pc = "Terminated")

====
